---- MODULE Spec2Model ----
(***************************************************************************)
(* Job orchestration of youtube-audio-api-scalable: the job store          *)
(* (InMemoryDB, RedisDB), the message bus (InMemoryQueue, RedisQueue), the *)
(* worker dispatcher (startQueueConsumer, processJob) and the submission   *)
(* handler (handleExtract).                                                *)
(*                                                                         *)
(* Go values are modelled as follows.  A *Job is a reference into `heap`;  *)
(* the pointer fields of a Job (Metadata, StartedAt, CompletedAt) are      *)
(* references into `cells`.  Nil is the nil pointer.  A goroutine is a     *)
(* program counter; one action is one synchronised operation (a call under *)
(* the store's mutex, a channel operation, a Redis command) or one         *)
(* unsynchronised write to memory another goroutine can read.              *)
(***************************************************************************)
EXTENDS Integers, Sequences, FiniteSets, TLC

(***************************************************************************)
(* Bounds of the model.                                                    *)
(***************************************************************************)
MaxJobs == 2

QueueCap == 1

MaxWorkers == 2

MaxDeletes == 1

MaxMsgs == 3

MaxTrimLen == 1
\* The clock runs from 1 to MaxTime.
MaxTime == 2
\* cfg.RateLimitRPM is at most MaxQuota.
MaxQuota == 2
\* The rate limiter is called at most MaxCalls times.
MaxCalls == 3
\* The rate limiter's clock advances at most MaxTicks times.
MaxTicks == 1

JobIds == 1..MaxJobs

\* The messages the client of a bus publishes, named by their job ids.
MsgIds == 1..MaxMsgs

\* The job id the callers of a store use.  A method of a store reads and
\* writes the entry of one id only, so the callers contend for one id.
StoreIds == {1}

\* Two goroutines that call the store.
Callers == {"a", "b"}
\* The client addresses (ip) the rate limiter is called with.
Clients == {"A", "B"}

Nil == 0

\* lastID := "$": the id that stands for the stream's last entry.
Dollar == -1

\* No XRead was issued yet.
Unset == -1

\* No call of the store has returned yet.
NoReturn == "none"

(***************************************************************************)
(* shared/job.go                                                           *)
(***************************************************************************)
JobStatusPending == "pending"

JobStatusProcessing == "processing"

JobStatusCompleted == "completed"

JobStatusFailed == "failed"

\* The zero value of the Job struct; also the content of an unused heap slot.
ZeroJob ==
    [id |-> 0, url |-> "", status |-> "", metadata |-> Nil,
     downloadEndpoint |-> "", error |-> "", createdAt |-> 0,
     startedAt |-> Nil, completedAt |-> Nil, filePath |-> ""]

VARIABLES
    dbJobs,        \* InMemoryDB.jobs: job id -> reference of the stored *Job, or Nil
    heap,          \* the Job structs: reference -> Job
    cells,         \* the Metadata and time.Time values pointer fields refer to
    now,           \* the wall clock read by time.Now()
    queue,         \* InMemoryQueue.queue: the buffered channel's content
    closeState,    \* "open", "stopClosed" (q.stop closed), "closed" (q.queue closed too)
    hpc,           \* handleExtract, per request: the handler's position
    hres,          \* handleExtract, per request: what mq.Publish returned
    dpc,           \* startQueueConsumer: the dispatch loop's position
    dmsg,          \* startQueueConsumer: the message the loop holds (msg)
    sem,           \* len(workerLimiter)
    cfgMaxWorkers, \* cfg.MaxWorkers = cap(workerLimiter)
    wpc,           \* the goroutine spawned for a message: its position
    werr,          \* processJob: the error message handed to handleJobFailure
    wtime,         \* processJob: completedNow / failedNow
    crashed,       \* the process has terminated on an unrecovered panic
    numDeletes,    \* admin deletions so far
    published,     \* history: the job ids of the messages Publish enqueued, in order
    delivered,     \* history: the job ids of the messages the consumer received, in order
    busKind,       \* the MessageQueueClient in use: "mem" (InMemoryQueue), "redis" (RedisQueue)
    stream,        \* RedisQueue: the entries of the Redis stream q.name
    lastGenId,     \* RedisQueue: the last entry id the stream has generated
    qMaxLen,       \* RedisQueue.maxLen
    rpc,           \* RedisQueue.Consume: the position of its goroutine
    lastID,        \* RedisQueue.Consume: lastID
    batch,         \* RedisQueue.Consume: the entries XRead returned, not yet sent on out
    nextMsg,       \* the bus's client: the next message it publishes
    readFrom,      \* history: how many messages were published when the first XRead was issued
    subFrom,       \* history: how many messages were published when Consume returned
    dbKind,        \* the DatabaseClient in use: "mem" (InMemoryDB), "redis" (RedisDB)
    rKeys,         \* RedisDB: the keys job:<id> that exist (by id) -> their JSON value
    rIndex,        \* RedisDB: the members of the sorted set "jobs"
    cpc,           \* a store's caller: its position inside a RedisDB call
    cjob,          \* a store's caller: its local variable job (*Job)
    corigin,       \* history: "got" when the caller's job is what GetJob returned and
                   \* was not passed to UpdateJob since; "own" otherwise
    ret,           \* history: the error the last call of the store returned ("" for nil)
    succ,          \* history: per id, the CreateJob calls that returned nil since the last DeleteJob
    overlap,       \* history: per id, two CreateJob calls overlapped in time
    rpm,           \* RateLimiter.cfg.RateLimitRPM
    limKind,       \* "redis" when RateLimiter.redis is set, "mem" when it is nil
    inMemCount,    \* RateLimiter.inMemCount (a missing key reads as 0)
    inMemTTL,      \* RateLimiter.inMemTTL
    rlKeys,        \* Redis: the keys ratelimit:<ip>:<minute> that exist -> count and expiry
    lpc,           \* Allow, per client: its position
    lres,          \* Allow, per client: key, n and the time of the INCR it has made
    alog           \* history: per client, what its Allow calls returned, in order

vars ==
    <<dbJobs, heap, cells, now, queue, closeState, hpc, hres, dpc, dmsg, sem,
      cfgMaxWorkers, wpc, werr, wtime, crashed, numDeletes, published, delivered,
      busKind, stream, lastGenId, qMaxLen, rpc, lastID, batch, nextMsg, readFrom,
      subFrom,
      dbKind, rKeys, rIndex, cpc, cjob, corigin, ret, succ, overlap,
      rpm, limKind, inMemCount, inMemTTL, rlKeys, lpc, lres, alog>>

storeVars == <<dbJobs, heap, cells>>

busVars == <<queue, closeState, published, delivered>>

handlerVars == <<hpc, hres>>

dispVars == <<dpc, dmsg>>

workerVars == <<wpc, werr, wtime>>

streamVars ==
    <<busKind, stream, lastGenId, qMaxLen, rpc, lastID, batch, nextMsg, readFrom,
      subFrom>>

clientVars == <<dbKind, rKeys, rIndex, cpc, cjob, corigin, ret, succ, overlap>>

limVars == <<rpm, limKind, inMemCount, inMemTTL, rlKeys, lpc, lres, alog>>

otherVars == <<streamVars, clientVars, limVars>>

(***************************************************************************)
(* References: the handler of request j allocates one Job (job := &Job{}), *)
(* the worker of job j holds the copy GetJob returned and allocates the    *)
(* Metadata and the two timestamps its pointer fields refer to.            *)
(***************************************************************************)
Refs == 1..(2 * MaxJobs)

HRef(j) == j

WRef(j) == MaxJobs + j

CellRefs == 1..(3 * MaxJobs)

MetaCell(j) == j

StartCell(j) == MaxJobs + j

DoneCell(j) == 2 * MaxJobs + j

(***************************************************************************)
(* shared/db.go: InMemoryDB.  Every method runs under jobsMutex, so each   *)
(* is one atomic step.  The map holds the caller's pointer itself.         *)
(***************************************************************************)
\* A CreateJob without the check of the key: it replaces the record.
MemCreateJobOverwrites(jobs, id, ref) ==
    [err |-> "", jobs |-> [jobs EXCEPT ![id] = ref]]

MemCreateJob(jobs, id, ref) ==
    IF jobs[id] # Nil
    THEN [err |-> "AlreadyExists", jobs |-> jobs]
    ELSE [err |-> "", jobs |-> [jobs EXCEPT ![id] = ref]]

\* copiedJob := *job is a shallow copy: the pointer fields are copied as pointers.
MemGetJob(jobs, hp, id) ==
    IF jobs[id] = Nil
    THEN [err |-> "NotFound", job |-> ZeroJob]
    ELSE [err |-> "", job |-> hp[jobs[id]]]

MemUpdateJob(jobs, id, ref) ==
    IF jobs[id] = Nil
    THEN [err |-> "NotFound", jobs |-> jobs]
    ELSE [err |-> "", jobs |-> [jobs EXCEPT ![id] = ref]]

MemDeleteJob(jobs, id) ==
    IF jobs[id] = Nil
    THEN [err |-> "NotFound", jobs |-> jobs]
    ELSE [err |-> "", jobs |-> [jobs EXCEPT ![id] = Nil]]

(***************************************************************************)
(* shared/queue.go: InMemoryQueue.                                         *)
(***************************************************************************)
JobMessage(j, u) == [jobId |-> j, url |-> u]

\* A select whose send proceeds on a full buffer.
PublishOutcomesOffByOne(buf, cs) ==
    LET send == IF cs = "closed" THEN {"panic"}
                ELSE IF Len(buf) <= QueueCap THEN {"ok"} ELSE {}
        stop == IF cs # "open" THEN {"QueueClosed"} ELSE {}
    IN  IF send \cup stop = {} THEN {"QueueFull"} ELSE send \cup stop

\* The select of Publish: the communications that can proceed.  A send on a
\* closed channel can proceed, and panics; when none can, default is taken.
PublishOutcomes(buf, cs) ==
    LET send == IF cs = "closed" THEN {"panic"}
                ELSE IF Len(buf) < QueueCap THEN {"ok"} ELSE {}
        stop == IF cs # "open" THEN {"QueueClosed"} ELSE {}
    IN  IF send \cup stop = {} THEN {"QueueFull"} ELSE send \cup stop

Publish(buf, msg, outcome) ==
    IF outcome = "ok" THEN Append(buf, msg) ELSE buf

\* Close, first half: once.Do runs the function once; close(q.stop).
CloseStop ==
    /\ ~crashed
    /\ closeState = "open"
    /\ closeState' = "stopClosed"
    /\ UNCHANGED <<otherVars, storeVars, now, queue, published, delivered, handlerVars,
                   dispVars, sem, cfgMaxWorkers, workerVars, crashed, numDeletes>>

\* A close that throws the buffered messages away.
CloseQueueDropsBuffer ==
    /\ ~crashed
    /\ closeState = "stopClosed"
    /\ closeState' = "closed"
    /\ queue' = <<>>
    /\ UNCHANGED <<otherVars, storeVars, now, published, delivered, handlerVars,
                   dispVars, sem, cfgMaxWorkers, workerVars, crashed, numDeletes>>

\* Close, second half: close(q.queue).
CloseQueue ==
    /\ ~crashed
    /\ closeState = "stopClosed"
    /\ closeState' = "closed"
    /\ UNCHANGED <<otherVars, storeVars, now, queue, published, delivered, handlerVars,
                   dispVars, sem, cfgMaxWorkers, workerVars, crashed, numDeletes>>

(***************************************************************************)
(* api-gateway/main.go: handleExtract, for the request that is given the   *)
(* job id j (uuid.New(): ids are fresh, taken here in increasing order).   *)
(***************************************************************************)
TheURL == "https://youtu.be/x"

NewJob(j, u, t) ==
    [ZeroJob EXCEPT !.id = j, !.url = u, !.status = JobStatusPending, !.createdAt = t]

HandleExtractCreate(j) ==
    /\ ~crashed
    /\ hpc[j] = "idle"
    /\ \A i \in JobIds : i < j => hpc[i] # "idle"
    /\ LET r == MemCreateJob(dbJobs, j, HRef(j))
       IN  /\ heap' = [heap EXCEPT ![HRef(j)] = NewJob(j, TheURL, now)]
           /\ dbJobs' = r.jobs
           /\ hpc' = [hpc EXCEPT ![j] = IF r.err = "" THEN "publish" ELSE "rejected"]
    /\ UNCHANGED <<otherVars, cells, now, busVars, hres, dispVars, sem, cfgMaxWorkers,
                   workerVars, crashed, numDeletes>>

HandleExtractPublish(j) ==
    /\ ~crashed
    /\ busKind = "mem"
    /\ hpc[j] = "publish"
    /\ \E o \in PublishOutcomes(queue, closeState) :
          /\ queue' = Publish(queue, JobMessage(j, TheURL), o)
          /\ published' = IF o = "ok" THEN Append(published, j) ELSE published
          /\ hres' = [hres EXCEPT ![j] = o]
          /\ hpc' = [hpc EXCEPT ![j] =
                        CASE o = "ok" -> "accepted"
                          [] o = "panic" -> "panicked"
                          [] OTHER -> "failStatus"]
    /\ UNCHANGED <<otherVars, storeVars, now, closeState, delivered, dispVars, sem,
                   cfgMaxWorkers, workerVars, crashed, numDeletes>>

\* job.Status = shared.JobStatusFailed, on the Job the store holds too.
HandleExtractFailStatus(j) ==
    /\ ~crashed
    /\ hpc[j] = "failStatus"
    /\ heap' = [heap EXCEPT ![HRef(j)].status = JobStatusFailed]
    /\ hpc' = [hpc EXCEPT ![j] = "failError"]
    /\ UNCHANGED <<otherVars, dbJobs, cells, now, busVars, hres, dispVars, sem,
                   cfgMaxWorkers, workerVars, crashed, numDeletes>>

HandleExtractFailUpdate(j) ==
    /\ ~crashed
    /\ hpc[j] = "failError"
    /\ heap' = [heap EXCEPT ![HRef(j)].error = "Failed to queue job"]
    /\ dbJobs' = MemUpdateJob(dbJobs, j, HRef(j)).jobs
    /\ hpc' = [hpc EXCEPT ![j] = "rejected"]
    /\ UNCHANGED <<otherVars, cells, now, busVars, hres, dispVars, sem,
                   cfgMaxWorkers, workerVars, crashed, numDeletes>>

\* handleAdminDeleteJob: db.DeleteJob of a job that GetJob found.
HandleAdminDeleteJob(j) ==
    /\ ~crashed
    /\ numDeletes < MaxDeletes
    /\ MemGetJob(dbJobs, heap, j).err = ""
    /\ dbJobs' = MemDeleteJob(dbJobs, j).jobs
    /\ numDeletes' = numDeletes + 1
    /\ UNCHANGED <<otherVars, heap, cells, now, busVars, handlerVars, dispVars, sem,
                   cfgMaxWorkers, workerVars, crashed>>

(***************************************************************************)
(* worker/main.go: startQueueConsumer.                                     *)
(***************************************************************************)
\* A loop that takes the next message while it still waits for a slot.
ConsumerReceiveWhileWaiting ==
    /\ ~crashed
    /\ dpc \in {"recv", "acquire"}
    /\ queue # <<>>
    /\ dmsg' = Head(queue)
    /\ queue' = Tail(queue)
    /\ delivered' = Append(delivered, Head(queue).jobId)
    /\ dpc' = "acquire"
    /\ UNCHANGED <<otherVars, storeVars, now, closeState, published, handlerVars, sem,
                   cfgMaxWorkers, workerVars, crashed, numDeletes>>

\* for msg := range messages: receive the next buffered message.
ConsumerReceive ==
    /\ ~crashed
    /\ dpc = "recv"
    /\ queue # <<>>
    /\ dmsg' = Head(queue)
    /\ queue' = Tail(queue)
    /\ delivered' = Append(delivered, Head(queue).jobId)
    /\ dpc' = "acquire"
    /\ UNCHANGED <<otherVars, storeVars, now, closeState, published, handlerVars, sem,
                   cfgMaxWorkers, workerVars, crashed, numDeletes>>

\* The range ends when the channel is closed and drained.
ConsumerStop ==
    /\ ~crashed
    /\ dpc = "recv"
    /\ queue = <<>>
    /\ closeState = "closed"
    /\ dpc' = "stopped"
    /\ UNCHANGED <<otherVars, storeVars, now, busVars, handlerVars, dmsg, sem,
                   cfgMaxWorkers, workerVars, crashed, numDeletes>>

\* A send that proceeds on a full channel: the bound is off by one.
CanAcquireOffByOne(n, capacity) == n <= capacity

\* A send on the buffered channel workerLimiter can proceed when it is not full.
CanAcquire(n, capacity) == n < capacity

\* workerLimiter <- struct{}{}, then go func(jobMessage) { ... }(msg).
ConsumerAcquire ==
    /\ ~crashed
    /\ dpc = "acquire"
    /\ CanAcquire(sem, cfgMaxWorkers)
    /\ sem' = sem + 1
    /\ wpc' = [wpc EXCEPT ![dmsg.jobId] = "get"]
    /\ dpc' = "recv"
    /\ UNCHANGED <<otherVars, storeVars, now, busVars, handlerVars, dmsg, cfgMaxWorkers,
                   werr, wtime, crashed, numDeletes>>

(***************************************************************************)
(* worker/main.go: processJob and handleJobFailure, run by the goroutine   *)
(* spawned for the message of job j.  `job` is heap[WRef(j)].              *)
(***************************************************************************)
\* A worker that goes on to the executor when GetJob has failed.
ProcessJobGetIgnoresError(j) ==
    /\ ~crashed
    /\ wpc[j] = "get"
    /\ LET r == MemGetJob(dbJobs, heap, j)
       IN  IF r.err # ""
           THEN /\ wpc' = [wpc EXCEPT ![j] = "execute"]
                /\ heap' = heap
           ELSE /\ wpc' = [wpc EXCEPT ![j] = "markProcessing"]
                /\ heap' = [heap EXCEPT ![WRef(j)] = r.job]
    /\ UNCHANGED <<otherVars, dbJobs, cells, now, busVars, handlerVars, dispVars, sem,
                   cfgMaxWorkers, werr, wtime, crashed, numDeletes>>

\* job, err := db.GetJob(jobID); on an error the goroutine returns.
ProcessJobGet(j) ==
    /\ ~crashed
    /\ wpc[j] = "get"
    /\ LET r == MemGetJob(dbJobs, heap, j)
       IN  IF r.err # ""
           THEN /\ wpc' = [wpc EXCEPT ![j] = "release"]
                /\ heap' = heap
           ELSE /\ wpc' = [wpc EXCEPT ![j] = "markProcessing"]
                /\ heap' = [heap EXCEPT ![WRef(j)] = r.job]
    /\ UNCHANGED <<otherVars, dbJobs, cells, now, busVars, handlerVars, dispVars, sem,
                   cfgMaxWorkers, werr, wtime, crashed, numDeletes>>

\* A worker that marks the job completed before it has run.
StartStatusSkipsProcessing == JobStatusCompleted

\* The status the worker writes before it runs the executor.
StartStatus == JobStatusProcessing

\* now := time.Now(); job.Status = processing; job.StartedAt = &now (both on
\* the goroutine's own copy); db.UpdateJob(job), whose error is only logged.
ProcessJobMarkProcessing(j) ==
    /\ ~crashed
    /\ wpc[j] = "markProcessing"
    /\ cells' = [cells EXCEPT ![StartCell(j)] = now]
    /\ heap' = [heap EXCEPT ![WRef(j)].status = StartStatus,
                            ![WRef(j)].startedAt = StartCell(j)]
    /\ dbJobs' = MemUpdateJob(dbJobs, j, WRef(j)).jobs
    /\ wpc' = [wpc EXCEPT ![j] = "execute"]
    /\ UNCHANGED <<otherVars, now, busVars, handlerVars, dispVars, sem, cfgMaxWorkers,
                   werr, wtime, crashed, numDeletes>>

\* What the executor (getAudioStream, then convertToMP3) can return.
ExecOutcomes == {"ok", "error"}

\* audioURL, meta, ytDlpErr := getAudioStream(originalURL) and
\* filePath, ffmpegErr := convertToMP3(audioURL, jobID): the external
\* executor, taken as one call that returns the metadata and the file path or
\* an error; then completedNow := time.Now() (failedNow in handleJobFailure).
ProcessJobExecute(j) ==
    /\ ~crashed
    /\ wpc[j] = "execute"
    /\ \E o \in ExecOutcomes :
          IF o = "ok"
          THEN /\ cells' = [cells EXCEPT ![MetaCell(j)] = 1]
               /\ wpc' = [wpc EXCEPT ![j] = "c_status"]
               /\ werr' = werr
          ELSE /\ werr' = [werr EXCEPT ![j] = "yt-dlp failed"]
               /\ wpc' = [wpc EXCEPT ![j] = "f_status"]
               /\ cells' = cells
    /\ wtime' = [wtime EXCEPT ![j] = now]
    /\ UNCHANGED <<otherVars, dbJobs, heap, now, busVars, handlerVars, dispVars, sem,
                   cfgMaxWorkers, crashed, numDeletes>>

\* One assignment to a field of *job; after UpdateJob the store holds this
\* very pointer, so the write is to the stored record.
WriteField(j, from, to, hp) ==
    /\ wpc[j] = from
    /\ heap' = hp
    /\ wpc' = [wpc EXCEPT ![j] = to]
    /\ UNCHANGED <<otherVars, now, busVars, handlerVars, dispVars, sem,
                   cfgMaxWorkers, werr, wtime, crashed, numDeletes>>

\* job.Status = shared.JobStatusCompleted
ProcessJobSetCompleted(j) ==
    /\ ~crashed
    /\ WriteField(j, "c_status", "c_finish",
                  [heap EXCEPT ![WRef(j)].status = JobStatusCompleted])
    /\ UNCHANGED <<dbJobs, cells>>

\* job.Metadata = meta; job.FilePath = filePath; job.DownloadEndpoint = ...;
\* job.CompletedAt = &completedNow: the assignments that follow the one to
\* Status, taken as one step (a reader between them sees the status without
\* some of these fields, as it does before this step); then db.UpdateJob(job),
\* whose error is only logged.
ProcessJobFinish(j) ==
    /\ ~crashed
    /\ WriteField(j, "c_finish", "release",
                  [heap EXCEPT ![WRef(j)].metadata = MetaCell(j),
                               ![WRef(j)].filePath = "output/id.mp3",
                               ![WRef(j)].downloadEndpoint = "/download/id",
                               ![WRef(j)].completedAt = DoneCell(j)])
    /\ cells' = [cells EXCEPT ![DoneCell(j)] = wtime[j]]
    /\ dbJobs' = MemUpdateJob(dbJobs, j, WRef(j)).jobs

\* A failure handler that leaves the job Processing.
FailureStatusLeavesProcessing == JobStatusProcessing

\* The status handleJobFailure writes.
FailureStatus == JobStatusFailed

\* handleJobFailure: job.Status = shared.JobStatusFailed
HandleJobFailureSetFailed(j) ==
    /\ ~crashed
    /\ WriteField(j, "f_status", "f_finish",
                  [heap EXCEPT ![WRef(j)].status = FailureStatus])
    /\ UNCHANGED <<dbJobs, cells>>

\* handleJobFailure: job.Error = errMsg; job.CompletedAt = &failedNow, taken
\* as one step; then db.UpdateJob(job), whose error is only logged.
HandleJobFailureFinish(j) ==
    /\ ~crashed
    /\ WriteField(j, "f_finish", "release",
                  [heap EXCEPT ![WRef(j)].error = werr[j],
                               ![WRef(j)].completedAt = DoneCell(j)])
    /\ cells' = [cells EXCEPT ![DoneCell(j)] = wtime[j]]
    /\ dbJobs' = MemUpdateJob(dbJobs, j, WRef(j)).jobs

\* The deferred function: <-workerLimiter.
Release(n) == n - 1

WorkerRelease(j) ==
    /\ ~crashed
    /\ wpc[j] = "release"
    /\ sem' = Release(sem)
    /\ wpc' = [wpc EXCEPT ![j] = "done"]
    /\ UNCHANGED <<otherVars, storeVars, now, busVars, handlerVars, dispVars,
                   cfgMaxWorkers, werr, wtime, crashed, numDeletes>>

\* The executor panics.  The deferred function runs (the token is taken
\* back); nothing recovers the panic, so the Go runtime ends the process.
WorkerPanic(j) ==
    /\ ~crashed
    /\ wpc[j] = "execute"
    /\ sem' = Release(sem)
    /\ wpc' = [wpc EXCEPT ![j] = "panicked"]
    /\ crashed' = TRUE
    /\ UNCHANGED <<otherVars, storeVars, now, busVars, handlerVars, dispVars,
                   cfgMaxWorkers, werr, wtime, numDeletes>>

(***************************************************************************)
(* shared/ratelimit.go: RateLimiter.  The clock `now` counts seconds.  A    *)
(* call under inMemMu is one step, and so is one Redis command.            *)
(***************************************************************************)
\* What a step of the rate limiter leaves alone.
nonLimVars ==
    <<storeVars, busVars, handlerVars, dispVars, sem, cfgMaxWorkers, workerVars,
      crashed, numDeletes, streamVars, clientVars>>

\* The length of the window: 60*time.Second, and the divisor of minuteKey.
WindowSecs == 60

\* The expiry Allow sets on a new counter: 65*time.Second.
ExpirySecs == 65

\* The zero time.Time of a new RateLimiter: many windows before any reading
\* of the clock.
ZeroTime == 0 - WindowSecs * WindowSecs

\* minuteKey(ip): the key ratelimit:<ip>:<time.Now().Unix()/60>.
MinuteKey(ip, t) == <<ip, t \div WindowSecs>>

\* A limiter that rejects the call that reaches the quota.
AllowedStrict(n, quota) == n < quota

\* n <= rpm
Allowed(n, quota) == n <= quota

\* A remaining quota computed from the count before the increment.
RemainingBeforeIncrement(quota, n) == quota - (n - 1)

\* remaining := rpm - n
Remaining(quota, n) == quota - n

\* A window of twice the length.
WindowExpiredTwoMinutes(t, ttl) == t - ttl > 2 * WindowSecs

\* now.Sub(r.inMemTTL) > 60*time.Second
WindowExpired(t, ttl) == t - ttl > WindowSecs

\* What a call of client ip returns: allowed, remaining; with the time at
\* which it was counted and the path that counted it.
AllowResult(n, quota, t, path) ==
    [t |-> t, ok |-> Allowed(n, quota), rem |-> Remaining(quota, n), path |-> path]

Returns(ip, res) == alog' = [alog EXCEPT ![ip] = Append(@, res)]

\* The calls of Allow made so far.
NumCalls ==
    LET RECURSIVE Sum(_)
        Sum(S) == IF S = {} THEN 0
                  ELSE LET x == CHOOSE y \in S : TRUE
                       IN  Len(alog[x]) + (IF lpc[x] = "idle" THEN 0 ELSE 1) + Sum(S \ {x})
    IN  Sum(Clients)

\* A limiter that takes only a negative quota for no limit.
UnlimitedOnlyNegative(quota) == quota < 0

\* rpm <= 0
Unlimited(quota) == quota <= 0

\* if rpm <= 0 { return true, rpm }
AllowUnlimited(ip) ==
    /\ lpc[ip] = "idle"
    /\ NumCalls < MaxCalls
    /\ Unlimited(rpm)
    /\ Returns(ip, [t |-> now, ok |-> TRUE, rem |-> rpm, path |-> "off"])
    /\ UNCHANGED <<nonLimVars, now, rpm, limKind, inMemCount, inMemTTL, rlKeys, lpc, lres>>

\* A fallback that counts the call and rejects it.
AllowInMemRejects(ip) ==
    LET expired == WindowExpired(now, inMemTTL)
        counts == IF expired THEN [x \in Clients |-> 0] ELSE inMemCount
        n == counts[ip] + 1
    IN  /\ inMemCount' = [counts EXCEPT ![ip] = n]
        /\ inMemTTL' = IF expired THEN now ELSE inMemTTL
        /\ Returns(ip, [t |-> now, ok |-> FALSE, rem |-> Remaining(rpm, n), path |-> "mem"])

\* allowInMem(ip, rpm), under inMemMu.
AllowInMem(ip) ==
    LET expired == WindowExpired(now, inMemTTL)
        counts == IF expired THEN [x \in Clients |-> 0] ELSE inMemCount
        n == counts[ip] + 1
    IN  /\ inMemCount' = [counts EXCEPT ![ip] = n]
        /\ inMemTTL' = IF expired THEN now ELSE inMemTTL
        /\ Returns(ip, AllowResult(n, rpm, now, "mem"))

\* Allow of a limiter without Redis: return r.allowInMem(ip, rpm).
AllowVolatile(ip) ==
    /\ lpc[ip] = "idle"
    /\ NumCalls < MaxCalls
    /\ ~Unlimited(rpm)
    /\ limKind = "mem"
    /\ AllowInMem(ip)
    /\ UNCHANGED <<nonLimVars, now, rpm, limKind, rlKeys, lpc, lres>>

\* The keys Redis still holds at time t: a key is gone when its expiry is due.
Live(keys, t) ==
    [k \in {x \in DOMAIN keys : keys[x].exp = Unset \/ t < keys[x].exp} |-> keys[k]]

\* INCR key: a missing key counts from 0; the expiry of the key stays.
Incr(keys, k) ==
    IF k \in DOMAIN keys
    THEN [keys EXCEPT ![k].n = @ + 1]
    ELSE [x \in DOMAIN keys \cup {k} |->
             IF x = k THEN [n |-> 1, exp |-> Unset] ELSE keys[x]]

\* EXPIRE key seconds: nothing on a missing key.
Expire(keys, k, t) ==
    IF k \in DOMAIN keys THEN [keys EXCEPT ![k].exp = t + ExpirySecs] ELSE keys

\* What a Redis command can do: run and reply; fail before it ran; run and
\* lose its reply (the 200 ms of the context pass).
CommandOutcomes == {"ok", "error", "errorApplied"}

\* Allow of a limiter with Redis: n, err := r.redis.Incr(ctx, key).Result();
\* on an error return r.allowInMem(ip, rpm); return at once unless n == 1.
IncrOutcome(ip, o) ==
    /\ lpc[ip] = "idle"
    /\ NumCalls < MaxCalls
    /\ ~Unlimited(rpm)
    /\ limKind = "redis"
    /\ LET k == MinuteKey(ip, now)
           keys == IF o = "error" THEN Live(rlKeys, now) ELSE Incr(Live(rlKeys, now), k)
       IN  /\ rlKeys' = keys
           /\ IF o # "ok"
              THEN AllowInMem(ip) /\ UNCHANGED <<lpc, lres>>
              ELSE IF keys[k].n = 1
                   THEN /\ lpc' = [lpc EXCEPT ![ip] = "expire"]
                        /\ lres' = [lres EXCEPT ![ip] = [n |-> 1, t |-> now, key |-> k]]
                        /\ UNCHANGED <<inMemCount, inMemTTL, alog>>
                   ELSE /\ Returns(ip, AllowResult(keys[k].n, rpm, now, "redis"))
                        /\ UNCHANGED <<inMemCount, inMemTTL, lpc, lres>>
    /\ UNCHANGED <<nonLimVars, now, rpm, limKind>>

AllowIncr(ip) == \E o \in CommandOutcomes : IncrOutcome(ip, o)

\* if n == 1 { _ = r.redis.Expire(ctx, key, 65*time.Second).Err() }, whose
\* error is dropped; then return int(n) <= rpm, remaining.
ExpireOutcome(ip, o) ==
    /\ lpc[ip] = "expire"
    /\ rlKeys' = IF o = "error" THEN Live(rlKeys, now)
                 ELSE Expire(Live(rlKeys, now), lres[ip].key, now)
    /\ Returns(ip, AllowResult(lres[ip].n, rpm, lres[ip].t, "redis"))
    /\ lpc' = [lpc EXCEPT ![ip] = "idle"]
    /\ UNCHANGED <<nonLimVars, now, rpm, limKind, inMemCount, inMemTTL, lres>>

AllowExpire(ip) == \E o \in CommandOutcomes : ExpireOutcome(ip, o)

\* How often the clock, which starts at 1, has advanced: each time by a
\* window length or by a second more.
Ticks(t) == (t - 1) \div WindowSecs

\* The clock advances d seconds.
LimiterTick(d) ==
    /\ Ticks(now) < MaxTicks
    /\ now' = now + d
    /\ UNCHANGED <<nonLimVars, limVars>>

(***************************************************************************)
(* The system as main() of the gateway and of the worker set it up: the    *)
(* in-memory store, the in-memory queue, one dispatch loop.                *)
(***************************************************************************)
InitStoreMem ==
    /\ dbJobs = [j \in JobIds |-> Nil]
    /\ heap = [r \in Refs |-> ZeroJob]
    /\ cells = [c \in CellRefs |-> 0]

InitQueue ==
    /\ queue = <<>>
    /\ closeState = "open"
    /\ published = <<>>
    /\ delivered = <<>>

InitProcs ==
    /\ now = 1
    /\ hpc = [j \in JobIds |-> "idle"]
    /\ hres = [j \in JobIds |-> ""]
    /\ dpc = "recv"
    /\ dmsg = JobMessage(0, "")
    /\ sem = 0
    /\ wpc = [j \in JobIds |-> "none"]
    /\ werr = [j \in JobIds |-> ""]
    /\ wtime = [j \in JobIds |-> 0]
    /\ crashed = FALSE
    /\ numDeletes = 0

\* No RedisQueue is constructed: mq = shared.NewInMemoryQueue(100).
InitStreamIdle ==
    /\ busKind = "mem"
    /\ stream = <<>>
    /\ lastGenId = 0
    /\ qMaxLen = 0
    /\ rpc = "unsubscribed"
    /\ lastID = Dollar
    /\ batch = <<>>
    /\ nextMsg = 1
    /\ readFrom = Unset
    /\ subFrom = Unset

\* No RedisDB is constructed and the store has no other caller:
\* db = shared.NewInMemoryDB().
InitClientIdle ==
    /\ dbKind = "mem"
    /\ rKeys = <<>>
    /\ rIndex = {}
    /\ cpc = [c \in Callers |-> "idle"]
    /\ cjob = [c \in Callers |-> Nil]
    /\ corigin = [c \in Callers |-> "own"]
    /\ ret = NoReturn
    /\ succ = [i \in StoreIds |-> 0]
    /\ overlap = [i \in StoreIds |-> FALSE]

\* No RateLimiter is constructed: nothing calls NewRateLimiter.
InitLimiterIdle ==
    /\ rpm = 0
    /\ limKind = "mem"
    /\ inMemCount = [c \in Clients |-> 0]
    /\ inMemTTL = ZeroTime
    /\ rlKeys = <<>>
    /\ lpc = [c \in Clients |-> "idle"]
    /\ lres = [c \in Clients |-> [n |-> 0, t |-> 0, key |-> <<>>]]
    /\ alog = [c \in Clients |-> <<>>]

Init ==
    /\ InitStoreMem
    /\ InitQueue
    /\ InitProcs
    /\ cfgMaxWorkers \in 1..MaxWorkers
    /\ InitStreamIdle
    /\ InitClientIdle
    /\ InitLimiterIdle

Handler(j) ==
    \/ HandleExtractCreate(j)
    \/ HandleExtractPublish(j)
    \/ HandleExtractFailStatus(j)
    \/ HandleExtractFailUpdate(j)
    \/ HandleAdminDeleteJob(j)

Worker(j) ==
    \/ ProcessJobGet(j)
    \/ ProcessJobMarkProcessing(j)
    \/ ProcessJobExecute(j)
    \/ ProcessJobSetCompleted(j)
    \/ ProcessJobFinish(j)
    \/ HandleJobFailureSetFailed(j)
    \/ HandleJobFailureFinish(j)
    \/ WorkerRelease(j)

Next ==
    \/ \E j \in JobIds : Handler(j)
    \/ \E j \in JobIds : Worker(j)
    \/ ConsumerReceive
    \/ ConsumerAcquire
    \/ ConsumerStop
    \/ CloseStop
    \/ CloseQueue

Spec == Init /\ [][Next]_vars

\* The same system with an executor that can also panic.
NextFault ==
    \/ Next
    \/ \E j \in JobIds : WorkerPanic(j)

SpecFault == Init /\ [][NextFault]_vars

\* The system while it serves, with a clock that advances: time.Now() is read
\* from `now`, which never runs backwards.  The queue stays open: mq.Close()
\* is deferred to the return of main.
Tick ==
    /\ now < MaxTime
    /\ now' = now + 1
    /\ UNCHANGED <<otherVars, storeVars, busVars, handlerVars, dispVars, sem,
                   cfgMaxWorkers, workerVars, crashed, numDeletes>>

NextClock ==
    \/ \E j \in JobIds : Handler(j)
    \/ \E j \in JobIds : Worker(j)
    \/ ConsumerReceive
    \/ ConsumerAcquire
    \/ Tick

\* cfg.MaxWorkers is 1: one execution unit at a time.
InitClock ==
    /\ InitStoreMem
    /\ InitQueue
    /\ InitProcs
    /\ cfgMaxWorkers = 1
    /\ InitStreamIdle
    /\ InitClientIdle
    /\ InitLimiterIdle

SpecClock == InitClock /\ [][NextClock]_vars

(***************************************************************************)
(* Properties of the system (Spec, SpecFault).                             *)
(***************************************************************************)
\* The execution unit of job j runs: its slot is acquired and not yet released.
Running(j) == wpc[j] \notin {"none", "done", "panicked"}

RunningCount == Cardinality({j \in JobIds : Running(j)})

\* What db.GetJob(j) shows of the status: "absent" when it fails.
StoredStatus(j) == IF dbJobs[j] = Nil THEN "absent" ELSE heap[dbJobs[j]].status

QueueIds == [i \in 1..Len(queue) |-> queue[i].jobId]

Min(a, b) == IF a < b THEN a ELSE b

\* C1: at no instant do more than cfg.MaxWorkers execution units run.
C1_ConcurrencyBound == RunningCount <= cfgMaxWorkers

\* All slots are taken and the dispatch loop waits with the next message.
C1_Witness ==
    /\ RunningCount = cfgMaxWorkers
    /\ dpc = "acquire"
    /\ ~ENABLED ConsumerAcquire

\* The steps of the status the dispatcher makes.
DispatcherStep(a, b) ==
    \/ a = JobStatusPending /\ b = JobStatusProcessing
    \/ a = JobStatusProcessing /\ b \in {JobStatusCompleted, JobStatusFailed}

C3_SlotReleasedLoopRuns ==
    \A j \in JobIds :
        wpc[j] \in {"done", "panicked"} => (sem = RunningCount /\ ~crashed)

\* C4 as stated: a Publish that runs after Close has begun returns QueueClosed
\* and enqueues nothing.
C4_PublishAfterCloseFails ==
    [][\A j \in JobIds :
          (hpc[j] = "publish" /\ hpc'[j] # "publish" /\ closeState # "open")
              => (hres'[j] = "QueueClosed" /\ queue' = queue)]_vars

PublishCalls == Cardinality({j \in JobIds : hres[j] # ""})

\* C5: while the queue is open and nothing was consumed, the first QueueCap
\* calls of Publish return nil and the later ones QueueFull, at once; exactly
\* the messages whose Publish returned nil are in the buffer.
C5_FullAfterCap ==
    (closeState = "open" /\ delivered = <<>>) =>
        /\ \A j \in JobIds : hres[j] \in {"", "ok", "QueueFull"}
        /\ \A j \in JobIds :
              hres[j] = "ok" <=> \E i \in 1..Len(queue) : queue[i] = JobMessage(j, TheURL)
        /\ Len(queue) = Min(PublishCalls, QueueCap)
        /\ \A j \in JobIds : hpc[j] = "publish" => ENABLED HandleExtractPublish(j)

\* The buffer is full and a further Publish has returned QueueFull.
C5_Witness ==
    /\ closeState = "open"
    /\ delivered = <<>>
    /\ Len(queue) = QueueCap
    /\ \E j \in JobIds : hres[j] = "QueueFull" /\ hpc[j] = "failStatus"

nonBusVars ==
    <<storeVars, now, handlerVars, dispVars, sem, cfgMaxWorkers, workerVars,
      crashed, numDeletes, clientVars, limVars>>

\* InMemoryQueue.Publish, called by the client.
MemPublish ==
    /\ busKind = "mem"
    /\ nextMsg <= MaxMsgs
    /\ \E o \in PublishOutcomes(queue, closeState) :
          /\ queue' = Publish(queue, JobMessage(nextMsg, TheURL), o)
          /\ published' = IF o = "ok" THEN Append(published, nextMsg) ELSE published
    /\ nextMsg' = nextMsg + 1
    /\ UNCHANGED <<nonBusVars, closeState, delivered, busKind, stream, lastGenId,
                   qMaxLen, rpc, lastID, batch, readFrom, subFrom>>

\* A receive from the channel InMemoryQueue.Consume returned: q.queue itself.
MemReceive ==
    /\ busKind = "mem"
    /\ queue # <<>>
    /\ delivered' = Append(delivered, Head(queue).jobId)
    /\ queue' = Tail(queue)
    /\ UNCHANGED <<nonBusVars, closeState, published, streamVars>>

\* InMemoryQueue.Close.
MemClose ==
    /\ busKind = "mem"
    /\ (CloseStop \/ CloseQueue)

(***************************************************************************)
(* shared/queue_redis.go: RedisQueue.                                      *)
(***************************************************************************)
\* b, _ := json.Marshal(message): the JSON object, as the list of its values.
MarshalMessage(msg) == <<msg.jobId, msg.url>>

\* json.Unmarshal([]byte(raw), &jm)
UnmarshalMessage(raw) == [jobId |-> raw[1], url |-> raw[2]]

\* XREAD COUNT 10
XReadCount == 10

Take(s, n) == SubSeq(s, 1, Min(n, Len(s)))

\* An XREAD that also returns the entry whose id it was given.
StreamAfterInclusive(s, from) == SelectSeq(s, LAMBDA e : e.id >= from)

\* XREAD STREAMS name id: the entries whose id is greater than id.
StreamAfter(s, from) == SelectSeq(s, LAMBDA e : e.id > from)

\* XADD MAXLEN ~ n: how many of the oldest entries the server may evict.  The
\* trimming is approximate: it never leaves fewer than n entries, it may
\* leave more.  Without MAXLEN (maxLen = 0) nothing is evicted.
TrimChoices(len, maxLen) ==
    IF maxLen > 0 /\ len > maxLen THEN 0..(len - maxLen) ELSE {0}

\* RedisQueue.Publish: XADD.  On an error (no connection) nothing is added.
\* An XREAD that blocks on the stream is served with the new entry.
RedisPublish ==
    /\ busKind = "redis"
    /\ nextMsg <= MaxMsgs
    /\ \/ LET e == [id |-> lastGenId + 1,
                    data |-> MarshalMessage(JobMessage(nextMsg, TheURL))]
              s == Append(stream, e)
          IN  /\ \E k \in TrimChoices(Len(s), qMaxLen) :
                     stream' = SubSeq(s, k + 1, Len(s))
              /\ lastGenId' = lastGenId + 1
              /\ published' = Append(published, nextMsg)
              /\ IF rpc = "blocked"
                 THEN batch' = <<e>> /\ rpc' = "deliver"
                 ELSE UNCHANGED <<batch, rpc>>
       \/ UNCHANGED <<stream, lastGenId, published, batch, rpc>>
    /\ nextMsg' = nextMsg + 1
    /\ UNCHANGED <<nonBusVars, queue, closeState, delivered, busKind, qMaxLen,
                   lastID, readFrom, subFrom>>

\* RedisQueue.Consume: out := make(chan JobMessage); go func() {...}();
\* lastID := "$".
RedisConsume ==
    /\ busKind = "redis"
    /\ rpc = "unsubscribed"
    /\ rpc' = "xread"
    /\ lastID' = Dollar
    /\ subFrom' = Len(published)
    /\ UNCHANGED <<nonBusVars, busVars, busKind, stream, lastGenId, qMaxLen,
                   batch, nextMsg, readFrom>>

\* q.client.XRead(... Streams: {q.name, lastID}, Block: 0, Count: 10): "$" is
\* the id of the last entry at the time of the call; with no newer entry the
\* call blocks.
RedisXRead ==
    /\ busKind = "redis"
    /\ rpc = "xread"
    /\ LET from == IF lastID = Dollar THEN lastGenId ELSE lastID
           res == Take(StreamAfter(stream, from), XReadCount)
       IN  IF res = <<>>
           THEN rpc' = "blocked" /\ batch' = batch
           ELSE rpc' = "deliver" /\ batch' = res
    /\ readFrom' = IF readFrom = Unset THEN Len(published) ELSE readFrom
    /\ UNCHANGED <<nonBusVars, busVars, busKind, stream, lastGenId, qMaxLen,
                   lastID, nextMsg, subFrom>>

\* lastID = msg.ID; out <- jm: the send on the unbuffered channel and the
\* consumer's receive are one step.
RedisDeliver ==
    /\ busKind = "redis"
    /\ rpc = "deliver"
    /\ lastID' = Head(batch).id
    /\ delivered' = Append(delivered, UnmarshalMessage(Head(batch).data).jobId)
    /\ batch' = Tail(batch)
    /\ rpc' = IF Tail(batch) = <<>> THEN "xread" ELSE "deliver"
    /\ UNCHANGED <<nonBusVars, queue, closeState, published, busKind, stream,
                   lastGenId, qMaxLen, nextMsg, readFrom, subFrom>>

\* XRead returns an error: the goroutine returns and out is closed.
RedisXReadError ==
    /\ busKind = "redis"
    /\ rpc \in {"xread", "blocked"}
    /\ rpc' = "exited"
    /\ UNCHANGED <<nonBusVars, busVars, busKind, stream, lastGenId, qMaxLen,
                   lastID, batch, nextMsg, readFrom, subFrom>>

InitBus ==
    /\ InitStoreMem
    /\ InitQueue
    /\ InitProcs
    /\ cfgMaxWorkers = 1
    /\ busKind \in {"mem", "redis"}
    /\ stream = <<>>
    /\ lastGenId = 0
    /\ qMaxLen \in IF busKind = "redis" THEN 0..MaxTrimLen ELSE {0}
    /\ rpc = "unsubscribed"
    /\ lastID = Dollar
    /\ batch = <<>>
    /\ nextMsg = 1
    /\ readFrom = Unset
    /\ subFrom = Unset
    /\ InitClientIdle
    /\ InitLimiterIdle

NextBus ==
    \/ MemPublish
    \/ MemReceive
    \/ MemClose
    \/ RedisPublish
    \/ RedisConsume
    \/ RedisXRead
    \/ RedisDeliver
    \/ RedisXReadError

SpecBus == InitBus /\ [][NextBus]_vars

(***************************************************************************)
(* Properties of the bus (SpecBus).                                        *)
(***************************************************************************)
IsPrefix(s, t) == Len(s) <= Len(t) /\ SubSeq(t, 1, Len(s)) = s

Range(s) == {s[i] : i \in 1..Len(s)}

Increasing(s) == \A i, k \in 1..Len(s) : i < k => s[i] < s[k]

nonStoreVars ==
    <<now, busVars, handlerVars, dispVars, sem, cfgMaxWorkers, workerVars,
      crashed, numDeletes, streamVars, limVars>>

CallerIdx == [a |-> 1, b |-> 2]

SRef(id) == id

CRef(c) == Cardinality(StoreIds) + CallerIdx[c]

StoreRefs == 1..(Cardinality(StoreIds) + Cardinality(Callers))

PointerFields == <<"metadata", "startedAt", "completedAt">>

CellId(r, k) == 3 * (r - 1) + k

StoreCells == 1..(3 * Cardinality(StoreRefs))

MinOf(S) == CHOOSE x \in S : \A y \in S : x <= y

\* The Jobs that refer, by their k-th pointer field, to the value ref.
Sharers(hp, k, ref) == {r \in StoreRefs : hp[r][PointerFields[k]] = ref}

\* The memory after a step, garbage collected: the Jobs the store's map or a
\* caller's variable refers to, and the values their pointer fields refer to.
Commit(hp, cl, jobs, loc) ==
    LET live == {SRef(i) : i \in {x \in StoreIds : jobs[x] = SRef(x)}}
                  \cup {CRef(c) : c \in {x \in Callers : loc[x] # Nil}}
        hp1 == [r \in StoreRefs |-> IF r \in live THEN hp[r] ELSE ZeroJob]
        first == [r \in StoreRefs |-> [k \in 1..3 |->
                    IF hp1[r][PointerFields[k]] = Nil THEN Nil
                    ELSE MinOf(Sharers(hp1, k, hp1[r][PointerFields[k]]))]]
        at == [r \in StoreRefs |-> [k \in 1..3 |->
                    IF first[r][k] = Nil THEN Nil ELSE CellId(first[r][k], k)]]
    IN  /\ heap' = [r \in StoreRefs |->
                      [hp1[r] EXCEPT !.metadata = at[r][1], !.startedAt = at[r][2],
                                     !.completedAt = at[r][3]]]
        /\ cells' = [x \in StoreCells |->
                       LET r == ((x - 1) \div 3) + 1
                           k == ((x - 1) % 3) + 1
                       IN  IF first[r][k] = r THEN cl[hp1[r][PointerFields[k]]]
                           ELSE 0]
        /\ dbJobs' = jobs
        /\ cjob' = loc

\* The caller's variable is about to be assigned: the Job it held stays only
\* if the store's map refers to it, and is then a Job only the store holds.
Drop(c, hp, jobs) ==
    LET id == hp[CRef(c)].id
    IN  IF cjob[c] # Nil /\ jobs[id] = CRef(c)
        THEN [heap |-> [hp EXCEPT ![SRef(id)] = hp[CRef(c)]],
              jobs |-> [jobs EXCEPT ![id] = SRef(id)]]
        ELSE [heap |-> hp, jobs |-> jobs]

\* The address of a newly allocated value for the k-th pointer field of Job r.
FreshCell(hp, r, k) ==
    MinOf({CellId(q, k) : q \in StoreRefs}
            \ {hp[q][PointerFields[k]] : q \in StoreRefs \ {r}})

\* The value a pointer field refers to, Nil for the nil pointer.
Deref(ref, cl) == IF ref = Nil THEN Nil ELSE cl[ref]

\* json.Marshal(job): the pointer fields are encoded by value, FilePath
\* (json:"-") is left out.
MarshalJob(job, cl) ==
    [id |-> job.id, url |-> job.url, status |-> job.status,
     metadata |-> Deref(job.metadata, cl),
     downloadEndpoint |-> job.downloadEndpoint, error |-> job.error,
     createdAt |-> job.createdAt,
     startedAt |-> Deref(job.startedAt, cl),
     completedAt |-> Deref(job.completedAt, cl)]

\* json.Unmarshal(val, &j): a new Job at r whose pointer fields refer to new
\* values; FilePath stays the zero value.
UnmarshalJob(js, hp, r) ==
    [id |-> js.id, url |-> js.url, status |-> js.status,
     metadata |-> IF js.metadata = Nil THEN Nil ELSE FreshCell(hp, r, 1),
     downloadEndpoint |-> js.downloadEndpoint, error |-> js.error,
     createdAt |-> js.createdAt,
     startedAt |-> IF js.startedAt = Nil THEN Nil ELSE FreshCell(hp, r, 2),
     completedAt |-> IF js.completedAt = Nil THEN Nil ELSE FreshCell(hp, r, 3),
     filePath |-> ""]

\* The values json.Unmarshal stores for the pointer fields of the new Job.
UnmarshalCells(js, hp, r, cl) ==
    [x \in StoreCells |->
        IF x = FreshCell(hp, r, 1) /\ js.metadata # Nil THEN js.metadata
        ELSE IF x = FreshCell(hp, r, 2) /\ js.startedAt # Nil THEN js.startedAt
        ELSE IF x = FreshCell(hp, r, 3) /\ js.completedAt # Nil THEN js.completedAt
        ELSE cl[x]]

\* The id of the job the caller holds.
JobIdOf(c) == heap[cjob[c]].id

\* A RedisDB.CreateJob of caller c is between its EXISTS and its EXEC, for id.
CreateInFlight(c, id) == cpc[c] = "createExec" /\ JobIdOf(c) = id

\* A caller makes a Job as handleExtract does: job := &shared.Job{ID: ...,
\* Status: JobStatusPending, ...}, with nil Metadata, StartedAt, CompletedAt.
CallerNew(c, id) ==
    /\ cpc[c] = "idle"
    /\ LET d == Drop(c, heap, dbJobs)
       IN  Commit([d.heap EXCEPT ![CRef(c)] = NewJob(id, TheURL, now)], cells,
                  d.jobs, [cjob EXCEPT ![c] = CRef(c)])
    /\ corigin' = [corigin EXCEPT ![c] = "own"]
    /\ UNCHANGED <<nonStoreVars, dbKind, rKeys, rIndex, cpc, ret, succ, overlap>>

\* A caller assigns to fields of its Job as processJob does:
\* job.Status = ...; job.StartedAt = &now; job.Metadata = meta;
\* job.FilePath = filePath.
CallerSetFields(c) ==
    /\ cpc[c] = "idle"
    /\ cjob[c] # Nil
    /\ LET r == cjob[c]
           m == FreshCell(heap, r, 1)
           s == FreshCell(heap, r, 2)
       IN  Commit([heap EXCEPT ![r].status = JobStatusProcessing,
                               ![r].metadata = m, ![r].startedAt = s,
                               ![r].filePath = "output/id.mp3"],
                  [cells EXCEPT ![m] = 1, ![s] = now], dbJobs, cjob)
    /\ UNCHANGED <<nonStoreVars, dbKind, rKeys, rIndex, cpc, corigin, ret, succ,
                   overlap>>

\* A caller writes through a pointer field of its Job:
\* job.Metadata.Title = ..., *job.StartedAt = ...
CallerMutateNested(c, f) ==
    /\ cpc[c] = "idle"
    /\ cjob[c] # Nil
    /\ heap[cjob[c]][f] # Nil
    /\ Commit(heap, [cells EXCEPT ![heap[cjob[c]][f]] = 2], dbJobs, cjob)
    /\ UNCHANGED <<nonStoreVars, dbKind, rKeys, rIndex, cpc, corigin, ret, succ,
                   overlap>>

AddSucc(id, err) ==
    IF err = "" THEN [succ EXCEPT ![id] = Min(@ + 1, 3)] ELSE succ

\* The caller's job has been passed to a CreateJob or an UpdateJob that
\* returned nil.
Passed(c, err) ==
    IF err = "" THEN [corigin EXCEPT ![c] = "own"] ELSE corigin

\* InMemoryDB.CreateJob(job)
MemCreate(c) ==
    /\ dbKind = "mem"
    /\ cjob[c] # Nil
    /\ LET id == JobIdOf(c)
           r == MemCreateJob(dbJobs, id, cjob[c])
       IN  /\ Commit(heap, cells, r.jobs, cjob)
           /\ ret' = r.err
           /\ succ' = AddSucc(id, r.err)
           /\ corigin' = Passed(c, r.err)
    /\ UNCHANGED <<nonStoreVars, dbKind, rKeys, rIndex, cpc, overlap>>

\* InMemoryDB.GetJob(id); job, err := ... assigns the caller's variable.
MemGet(c, id) ==
    /\ dbKind = "mem"
    /\ LET r == MemGetJob(dbJobs, heap, id)
           d == Drop(c, heap, dbJobs)
       IN  IF r.err # ""
           THEN /\ ret' = r.err
                /\ UNCHANGED <<dbJobs, heap, cells, cjob, corigin>>
           ELSE /\ Commit([d.heap EXCEPT ![CRef(c)] = r.job], cells, d.jobs,
                          [cjob EXCEPT ![c] = CRef(c)])
                /\ ret' = ""
                /\ corigin' = [corigin EXCEPT ![c] = "got"]
    /\ UNCHANGED <<nonStoreVars, dbKind, rKeys, rIndex, cpc, succ, overlap>>

\* InMemoryDB.UpdateJob(job)
MemUpdate(c) ==
    /\ dbKind = "mem"
    /\ cjob[c] # Nil
    /\ LET r == MemUpdateJob(dbJobs, JobIdOf(c), cjob[c])
       IN  /\ Commit(heap, cells, r.jobs, cjob)
           /\ ret' = r.err
           /\ corigin' = Passed(c, r.err)
    /\ UNCHANGED <<nonStoreVars, dbKind, rKeys, rIndex, cpc, succ, overlap>>

\* InMemoryDB.DeleteJob(id)
MemDelete(c, id) ==
    /\ dbKind = "mem"
    /\ LET r == MemDeleteJob(dbJobs, id)
       IN  /\ Commit(heap, cells, r.jobs, cjob)
           /\ ret' = r.err
           /\ succ' = IF r.err = "" THEN [succ EXCEPT ![id] = 0] ELSE succ
    /\ UNCHANGED <<nonStoreVars, dbKind, rKeys, rIndex, cpc, corigin, overlap>>

(***************************************************************************)
(* shared/db_redis.go: RedisDB.  One Redis command, or one MULTI/EXEC      *)
(* pipeline, is one step.                                                  *)
(***************************************************************************)
\* SET key value
RedisSet(keys, id, val) ==
    [i \in DOMAIN keys \cup {id} |-> IF i = id THEN val ELSE keys[i]]

\* DEL key
RedisDel(keys, id) == [i \in DOMAIN keys \ {id} |-> keys[i]]

\* RedisDB.CreateJob: exists, err := r.client.Exists(ctx, key).Result() and
\* the return when exists > 0.
RedisCreateExists(c) ==
    /\ dbKind = "redis"
    /\ cpc[c] = "idle"
    /\ cjob[c] # Nil
    /\ LET id == JobIdOf(c)
       IN  IF id \in DOMAIN rKeys
           THEN /\ ret' = "AlreadyExists"
                /\ UNCHANGED <<cpc, overlap>>
           ELSE /\ cpc' = [cpc EXCEPT ![c] = "createExec"]
                /\ overlap' = [overlap EXCEPT ![id] =
                                  @ \/ \E d \in Callers \ {c} : CreateInFlight(d, id)]
                /\ ret' = ret
    /\ UNCHANGED <<nonStoreVars, storeVars, dbKind, rKeys, rIndex, cjob, corigin,
                   succ>>

\* RedisDB.CreateJob: b, _ := json.Marshal(job); the pipeline SET, ZADD; Exec.
RedisCreateExec(c) ==
    /\ dbKind = "redis"
    /\ cpc[c] = "createExec"
    /\ rKeys' = RedisSet(rKeys, JobIdOf(c), MarshalJob(heap[cjob[c]], cells))
    /\ rIndex' = rIndex \cup {JobIdOf(c)}
    /\ ret' = ""
    /\ succ' = AddSucc(JobIdOf(c), "")
    /\ cpc' = [cpc EXCEPT ![c] = "idle"]
    /\ corigin' = Passed(c, "")
    /\ UNCHANGED <<nonStoreVars, storeVars, dbKind, cjob, overlap>>

\* RedisDB.GetJob(id): GET, then json.Unmarshal into a new Job.
RedisGet(c, id) ==
    /\ dbKind = "redis"
    /\ cpc[c] = "idle"
    /\ IF id \notin DOMAIN rKeys
       THEN /\ ret' = "NotFound"
            /\ UNCHANGED <<dbJobs, heap, cells, cjob, corigin>>
       ELSE /\ Commit([heap EXCEPT ![CRef(c)] = UnmarshalJob(rKeys[id], heap, CRef(c))],
                      UnmarshalCells(rKeys[id], heap, CRef(c), cells), dbJobs,
                      [cjob EXCEPT ![c] = CRef(c)])
            /\ ret' = ""
            /\ corigin' = [corigin EXCEPT ![c] = "got"]
    /\ UNCHANGED <<nonStoreVars, dbKind, rKeys, rIndex, cpc, succ, overlap>>

\* RedisDB.UpdateJob: the Exists and the return when exists == 0.
RedisUpdateExists(c) ==
    /\ dbKind = "redis"
    /\ cpc[c] = "idle"
    /\ cjob[c] # Nil
    /\ IF JobIdOf(c) \notin DOMAIN rKeys
       THEN /\ ret' = "NotFound"
            /\ cpc' = cpc
       ELSE /\ cpc' = [cpc EXCEPT ![c] = "updateSet"]
            /\ ret' = ret
    /\ UNCHANGED <<nonStoreVars, storeVars, dbKind, rKeys, rIndex, cjob, corigin,
                   succ, overlap>>

\* RedisDB.UpdateJob: b, _ := json.Marshal(job); SET.
RedisUpdateSet(c) ==
    /\ dbKind = "redis"
    /\ cpc[c] = "updateSet"
    /\ rKeys' = RedisSet(rKeys, JobIdOf(c), MarshalJob(heap[cjob[c]], cells))
    /\ ret' = ""
    /\ cpc' = [cpc EXCEPT ![c] = "idle"]
    /\ corigin' = Passed(c, "")
    /\ UNCHANGED <<nonStoreVars, storeVars, dbKind, rIndex, cjob, succ, overlap>>

\* RedisDB.DeleteJob(id): the pipeline DEL, ZREM; Exec.  It returns Exec's
\* error only.
RedisDelete(c, id) ==
    /\ dbKind = "redis"
    /\ cpc[c] = "idle"
    /\ rKeys' = RedisDel(rKeys, id)
    /\ rIndex' = rIndex \ {id}
    /\ ret' = ""
    /\ succ' = [succ EXCEPT ![id] = 0]
    /\ overlap' = [overlap EXCEPT ![id] =
                      Cardinality({d \in Callers : CreateInFlight(d, id)}) >= 2]
    /\ UNCHANGED <<nonStoreVars, storeVars, dbKind, cpc, cjob, corigin>>

InitStore ==
    /\ dbJobs = [i \in StoreIds |-> Nil]
    /\ heap = [r \in StoreRefs |-> ZeroJob]
    /\ cells = [x \in StoreCells |-> 0]
    /\ InitQueue
    /\ InitProcs
    /\ cfgMaxWorkers = 1
    /\ InitStreamIdle
    /\ dbKind \in {"mem", "redis"}
    /\ rKeys = <<>>
    /\ rIndex = {}
    /\ cpc = [c \in Callers |-> "idle"]
    /\ cjob = [c \in Callers |-> Nil]
    /\ corigin = [c \in Callers |-> "own"]
    /\ ret = NoReturn
    /\ succ = [i \in StoreIds |-> 0]
    /\ overlap = [i \in StoreIds |-> FALSE]
    /\ InitLimiterIdle

Caller(c) ==
    \/ \E id \in StoreIds : CallerNew(c, id)
    \/ CallerSetFields(c)
    \/ \E f \in {"metadata", "startedAt"} : CallerMutateNested(c, f)
    \/ MemCreate(c)
    \/ \E id \in StoreIds : MemGet(c, id)
    \/ MemUpdate(c)
    \/ \E id \in StoreIds : MemDelete(c, id)
    \/ RedisCreateExists(c)
    \/ RedisCreateExec(c)
    \/ \E id \in StoreIds : RedisGet(c, id)
    \/ RedisUpdateExists(c)
    \/ RedisUpdateSet(c)
    \/ \E id \in StoreIds : RedisDelete(c, id)

NextStore == \E c \in Callers : Caller(c)

SpecStore == InitStore /\ [][NextStore]_vars

(***************************************************************************)
(* Properties of the store (SpecStore).                                    *)
(***************************************************************************)
\* What GetJob(id) returns now, with the pointer fields followed: the empty
\* set when it fails, else the set of the one Job value.
GetView(id) ==
    IF dbKind = "mem"
    THEN IF dbJobs[id] = Nil THEN {}
         ELSE {MarshalJob(heap[dbJobs[id]], cells)
                  @@ [filePath |-> heap[dbJobs[id]].filePath]}
    ELSE IF id \notin DOMAIN rKeys THEN {}
         ELSE {rKeys[id] @@ [filePath |-> ""]}

\* The step in which a CreateJob of caller c checks whether the id exists.
CreateCheck(c) == MemCreate(c) \/ RedisCreateExists(c)

\* C8: a CreateJob that finds its id present returns AlreadyExists and leaves
\* every stored record as it was; and of the CreateJob calls for one id with
\* no DeleteJob of it between them at most one returns nil, as long as the
\* calls follow one another: two calls return nil only on the RedisDB and only
\* when they overlapped in time.
C8_CreateOnce ==
    [][/\ \A c \in Callers :
             (CreateCheck(c) /\ GetView(JobIdOf(c)) # {}) =>
                 /\ ret' = "AlreadyExists"
                 /\ \A i \in StoreIds : GetView(i)' = GetView(i)
                 /\ succ' = succ
       /\ \A i \in StoreIds :
             succ'[i] >= 2 => (dbKind = "redis" /\ overlap'[i])]_vars

\* A CreateJob has returned nil, a later one for the same id has returned
\* AlreadyExists, and no two calls overlapped.
C8_Witness ==
    /\ ret = "AlreadyExists"
    /\ \E i \in StoreIds : succ[i] = 1 /\ ~overlap[i] /\ GetView(i) # {}

\* C9 as stated: of the CreateJob calls for one id, also when they run
\* concurrently, at most one returns nil, on either backend.
C9_AtMostOneCreate == \A i \in StoreIds : succ[i] <= 1

\* A step in which caller c writes to the Job it holds.
CallerWrites(c) ==
    \/ CallerSetFields(c)
    \/ \E f \in {"metadata", "startedAt"} : CallerMutateNested(c, f)

\* C10 as stated: GetJob of an absent id returns NotFound; and when a caller
\* writes to the Job GetJob returned to it, nested fields included, before it
\* passes it to UpdateJob, what GetJob returns does not change.
C10_GetReturnsCopy ==
    [][\A c \in Callers :
          /\ \A i \in StoreIds :
                ((MemGet(c, i) \/ RedisGet(c, i)) /\ GetView(i) = {})
                    => ret' = "NotFound"
          /\ (corigin[c] = "got" /\ CallerWrites(c)) =>
                \A i \in StoreIds : GetView(i)' = GetView(i)]_vars

\* The Job value with its pointer fields followed.
DeepJob(job, cl) == MarshalJob(job, cl) @@ [filePath |-> job.filePath]

\* A step of an UpdateJob of caller c.
UpdateStep(c) == MemUpdate(c) \/ RedisUpdateExists(c) \/ RedisUpdateSet(c)

\* The step in which an UpdateJob of caller c returns.
UpdateReturns(c) ==
    \/ MemUpdate(c)
    \/ RedisUpdateExists(c) /\ cpc'[c] = "idle"
    \/ RedisUpdateSet(c)

\* C11 as stated: an UpdateJob whose id is absent changes no record, also
\* when the record was deleted while it ran, and returns NotFound; an
\* UpdateJob whose id is present makes GetJob return exactly the record
\* passed, every field of it.
C11_UpdateReplaces ==
    [][\A c \in Callers :
          /\ (UpdateStep(c) /\ GetView(JobIdOf(c)) = {}) =>
                /\ \A i \in StoreIds : GetView(i)' = GetView(i)
                /\ UpdateReturns(c) => ret' = "NotFound"
          /\ (UpdateReturns(c) /\ GetView(JobIdOf(c)) # {} /\ ret' = "") =>
                GetView(JobIdOf(c))' = {DeepJob(heap[cjob[c]], cells)}]_vars

\* The ids of the jobs GetAllJobs returns now.  InMemoryDB: the keys of the
\* map.  RedisDB: the members of the sorted set "jobs" whose GetJob succeeds.
ListIds ==
    IF dbKind = "mem"
    THEN {i \in StoreIds : dbJobs[i] # Nil}
    ELSE {i \in rIndex : i \in DOMAIN rKeys}

\* C12 as stated: a DeleteJob of an absent id returns NotFound, on either
\* backend; a DeleteJob of a present id removes the record: GetJob of the id
\* then fails and GetAllJobs does not list it.
C12_DeleteRemoves ==
    [][\A c \in Callers, i \in StoreIds :
          (MemDelete(c, i) \/ RedisDelete(c, i)) =>
              IF GetView(i) = {}
              THEN ret' = "NotFound"
              ELSE GetView(i)' = {} /\ i \notin ListIds']_vars

(***************************************************************************)
(* Further properties of the system (Spec).                                *)
(***************************************************************************)
\* What db.GetJob(j) returns now, with the pointer fields followed; j is present.
StoredRecord(j) == DeepJob(heap[dbJobs[j]], cells)

Terminal(s) == s \in {JobStatusCompleted, JobStatusFailed}

\* C13 as stated: once the status GetJob shows of a job is Completed or
\* Failed, no step of the dispatcher or of the submission handler changes
\* any field of the record GetJob returns (an admin deletion removes it).
C13_TerminalFrozen ==
    [][\A j \in JobIds :
          (Terminal(StoredStatus(j)) /\ StoredStatus(j)' # "absent")
              => StoredRecord(j)' = StoredRecord(j)]_vars

\* The failure handler of job j writes.
FailureStep(j) == HandleJobFailureSetFailed(j) \/ HandleJobFailureFinish(j)

\* C14: when the executor returned an error for job j, the record (unless an
\* administrator deleted it) ends Failed with a non-empty error message; the
\* executor is not invoked for j again; and the failure handler of j changes
\* nothing of what GetJob shows of another job.
C14_FailureIsFinal ==
    /\ [](\A j \in JobIds :
            (wpc[j] = "done" /\ werr[j] # "" /\ dbJobs[j] # Nil) =>
                /\ StoredStatus(j) = JobStatusFailed
                /\ heap[dbJobs[j]].error # "")
    /\ [][\A j \in JobIds :
            /\ werr[j] # "" => ~ProcessJobExecute(j)
            /\ FailureStep(j) =>
                  \A i \in JobIds \ {j} :
                      /\ StoredStatus(i)' = StoredStatus(i)
                      /\ dbJobs[i] # Nil => StoredRecord(i)' = StoredRecord(i)
                      /\ wpc'[i] = wpc[i]]_vars

\* The executor failed for one job, whose record is Failed with the error,
\* and succeeded for another, whose record is Completed.
C14_Witness ==
    \E j, k \in JobIds :
        /\ wpc[j] = "done" /\ werr[j] # ""
        /\ StoredStatus(j) = JobStatusFailed
        /\ heap[dbJobs[j]].error = werr[j]
        /\ wpc[k] = "done" /\ werr[k] = ""
        /\ StoredStatus(k) = JobStatusCompleted

\* handleExtract has ended for the request of job j.
Answered(j) == hpc[j] \in {"accepted", "rejected", "panicked"}

\* C16 as stated: a submission returns the job id only if the record was
\* created and the message published; otherwise the caller gets an explicit
\* rejection and the store holds no Pending record for the message that was
\* never enqueued.
C16_SubmissionAllOrNothing ==
    \A j \in JobIds :
        /\ hpc[j] = "accepted" =>
              (hres[j] = "ok" /\ \E i \in 1..Len(published) : published[i] = j)
        /\ (Answered(j) /\ hres[j] # "ok") =>
              (hpc[j] = "rejected" /\ StoredStatus(j) # JobStatusPending)

\* The steps of the submission of job j that have been made.
Created(j) == hpc[j] # "idle"

WasPublished(j) == \E i \in 1..Len(published) : published[i] = j

Consumed(j) == \E i \in 1..Len(delivered) : delivered[i] = j

SlotAcquired(j) == wpc[j] # "none"

ExecutorRan(j) == wpc[j] \in {"c_status", "c_finish", "f_status", "f_finish"} \/ wtime[j] # 0

TerminalWritten(j) == wpc[j] \in {"release", "done"} /\ Terminal(heap[WRef(j)].status)

\* RateLimiter.Allow has returned allowed to a client.
AllowedSome == \E c \in Clients : \E i \in 1..Len(alog[c]) : alog[c][i].ok

\* The order from CreateJob on: each step of a submission comes after the
\* one before, and the executor runs only for a record GetJob found.
OrderFromCreate(j) ==
    /\ WasPublished(j) => Created(j)
    /\ Consumed(j) => WasPublished(j)
    /\ SlotAcquired(j) => Consumed(j)
    /\ ExecutorRan(j) => (SlotAcquired(j) /\ heap[WRef(j)].id = j)
    /\ TerminalWritten(j) => ExecutorRan(j)

\* C17 as stated: the steps of a submission come in the order Allow,
\* CreateJob, Publish, consumption, slot, executor, terminal UpdateJob: no
\* record is created unless Allow has returned allowed, and no executor runs
\* before the record exists.
C17_OrderOfSteps ==
    \A j \in JobIds :
        /\ Created(j) => AllowedSome
        /\ OrderFromCreate(j)

(* Properties of the system with its clock (SpecClock). *)
\* The time processJob stored in job.StartedAt, Unset when it did not.
StartedAt(j) ==
    IF heap[WRef(j)].startedAt = Nil THEN Unset ELSE cells[heap[WRef(j)].startedAt]

\* The time processJob or handleJobFailure stored in job.CompletedAt.
CompletedAt(j) ==
    IF heap[WRef(j)].completedAt = Nil THEN Unset ELSE cells[heap[WRef(j)].completedAt]

\* Job j was delivered before job k.
DeliveredBefore(j, k) ==
    \E a, b \in 1..Len(delivered) : a < b /\ delivered[a] = j /\ delivered[b] = k

\* C15: with cfg.MaxWorkers = 1, of two jobs delivered one after the other
\* the later one is not started before the earlier one is completed: the
\* later StartedAt is not before the earlier CompletedAt, and while the
\* earlier job has no CompletedAt yet (and its execution unit has not ended
\* without one) the later job has no StartedAt.
C15_Serialised ==
    cfgMaxWorkers = 1 =>
        \A j, k \in JobIds :
            (DeliveredBefore(j, k) /\ StartedAt(k) # Unset) =>
                /\ wpc[j] = "done"
                /\ CompletedAt(j) # Unset => CompletedAt(j) <= StartedAt(k)

\* The clock advanced between the start and the completion of the first job,
\* and the second job started when the first completed or later.
C15_Witness ==
    /\ cfgMaxWorkers = 1
    /\ \E j, k \in JobIds :
          /\ DeliveredBefore(j, k)
          /\ StartedAt(j) # Unset /\ CompletedAt(j) # Unset /\ StartedAt(k) # Unset
          /\ StartedAt(j) < CompletedAt(j)
          /\ CompletedAt(j) <= StartedAt(k)

(***************************************************************************)
(* The rate limiter on its own (SpecLimiter).                              *)
(***************************************************************************)
\* A RateLimiter on its own, with or without Redis, called by the clients.
InitLimiter ==
    /\ InitStoreMem
    /\ InitQueue
    /\ InitProcs
    /\ cfgMaxWorkers = 1
    /\ InitStreamIdle
    /\ InitClientIdle
    /\ rpm \in (0 - 1)..MaxQuota
    /\ limKind \in {"mem", "redis"}
    /\ inMemCount = [c \in Clients |-> 0]
    /\ inMemTTL = ZeroTime
    /\ rlKeys = <<>>
    /\ lpc = [c \in Clients |-> "idle"]
    /\ lres = [c \in Clients |-> [n |-> 0, t |-> 0, key |-> <<>>]]
    /\ alog = [c \in Clients |-> <<>>]

NextLimiter ==
    \/ \E ip \in Clients : AllowUnlimited(ip)
    \/ \E ip \in Clients : AllowVolatile(ip)
    \/ \E ip \in Clients : AllowIncr(ip)
    \/ \E ip \in Clients : AllowExpire(ip)
    \/ \E d \in {WindowSecs, WindowSecs + 1} : LimiterTick(d)

SpecLimiter == InitLimiter /\ [][NextLimiter]_vars

(* Properties of the rate limiter (SpecLimiter). *)
\* The times of the calls that allowInMem counted.
MemTimes ==
    UNION {{alog[c][i].t : i \in {k \in 1..Len(alog[c]) : alog[c][k].path = "mem"}} :
           c \in Clients}

\* When the window of the map began that is in force at time t: the last of
\* the calls that found more than WindowSecs elapsed since the window before
\* (w is a window's beginning, T the times of the calls).
RECURSIVE WindowStart(_, _, _)
WindowStart(w, T, t) ==
    LET later == {x \in T : x <= t /\ x - w > WindowSecs}
    IN  IF later = {} THEN w ELSE WindowStart(MinOf(later), T, t)

\* The i-th call of client c fell back, or the limiter was off.
Fallback(c, i) == alog[c][i].path # limKind

\* The window the i-th call of client c falls in: a minute of the clock for
\* a limiter with Redis, a window of the map for one without.
WindowOf(c, i) ==
    IF limKind = "redis"
    THEN WindowSecs * (alog[c][i].t \div WindowSecs)
    ELSE WindowStart(ZeroTime, MemTimes, alog[c][i].t)

\* The calls client c made in the window of its i-th call, up to that call.
CallsInWindow(c, i) == {k \in 1..i : WindowOf(c, k) = WindowOf(c, i)}

\* C18 as stated: with a quota > 0, of the calls of a client in one window
\* exactly the first quota are allowed, whatever other clients do.
C18_FirstQuotaAllowed ==
    rpm > 0 =>
        \A c \in Clients : \A i \in 1..Len(alog[c]) :
            alog[c][i].ok <=> Cardinality(CallsInWindow(c, i)) <= rpm

\* C18 as amended: the same, up to the first call of the window that met an
\* error of Redis and was counted by the map instead.
C18_FirstQuotaAllowedNoError ==
    rpm > 0 =>
        \A c \in Clients : \A i \in 1..Len(alog[c]) :
            (\A k \in CallsInWindow(c, i) : ~Fallback(c, k)) =>
                (alog[c][i].ok <=> Cardinality(CallsInWindow(c, i)) <= rpm)

\* A client was allowed exactly quota calls and then rejected, in one window
\* in which the other client called too.
C18_Witness ==
    /\ rpm > 0
    /\ \E c \in Clients : \E i \in 1..Len(alog[c]) :
          /\ ~alog[c][i].ok
          /\ Cardinality(CallsInWindow(c, i)) = rpm + 1
          /\ \A k \in CallsInWindow(c, i) : ~Fallback(c, k)
          /\ \E d \in Clients \ {c} : Len(alog[d]) > 0 /\ alog[d][1].ok

\* C19 as stated: a call rejected because the quota is used up reports the
\* remaining quota 0.
C19_RejectedReportsZero ==
    rpm > 0 =>
        \A c \in Clients : \A i \in 1..Len(alog[c]) :
            ~alog[c][i].ok => alog[c][i].rem = 0

\* C19 as amended: a call reports the quota minus the count that includes
\* the call itself: a rejected call reports a negative number, the first
\* rejected call of a window -1, and the call that uses up the quota 0.
C19_RejectedReportsNegative ==
    rpm > 0 =>
        \A c \in Clients : \A i \in 1..Len(alog[c]) :
            /\ alog[c][i].ok <=> alog[c][i].rem >= 0
            /\ (\A k \in CallsInWindow(c, i) : ~Fallback(c, k)) =>
                  alog[c][i].rem = rpm - Cardinality(CallsInWindow(c, i))

\* With the quota 2 the third call of a client in a window was rejected and
\* reported -1.
C19_Witness ==
    /\ rpm = 2
    /\ \E c \in Clients :
          /\ Len(alog[c]) = 3
          /\ WindowOf(c, 1) = WindowOf(c, 3)
          /\ alog[c][1].ok /\ alog[c][2].ok /\ alog[c][2].rem = 0
          /\ ~alog[c][3].ok /\ alog[c][3].rem = 0 - 1

\* When the window began in which the backend that counted the i-th call of
\* client c held the client's call before.
BeganBefore(c, i) ==
    IF alog[c][i].path = "redis"
    THEN WindowSecs * (alog[c][i - 1].t \div WindowSecs)
    ELSE WindowStart(ZeroTime, MemTimes, alog[c][i - 1].t)

RolledOver(c, i) ==
    IF alog[c][i].path = "redis"
    THEN alog[c][i].t \div WindowSecs # alog[c][i - 1].t \div WindowSecs
    ELSE alog[c][i].t - BeganBefore(c, i) > WindowSecs

VolatileCount(c, i) ==
    Cardinality({k \in 1..i :
        /\ alog[c][k].path = "mem"
        /\ WindowStart(ZeroTime, MemTimes, alog[c][k].t)
               = WindowStart(ZeroTime, MemTimes, alog[c][i].t)})

\* The call of client c that returned last returned what allowInMem returns.
VolatileResult(c) ==
    LET i == Len(alog[c])
    IN  /\ i > 0
        /\ alog[c][i].path = "mem"
        /\ alog[c][i].ok <=> VolatileCount(c, i) <= rpm
        /\ alog[c][i].rem = rpm - VolatileCount(c, i)

\* A Redis command of the call of client ip returns an error.
IncrFails(ip) == IncrOutcome(ip, "error") \/ IncrOutcome(ip, "errorApplied")

ExpireFails(ip) == ExpireOutcome(ip, "error") \/ ExpireOutcome(ip, "errorApplied")

C22_NoLimit ==
    /\ [](rpm <= 0 =>
             \A c \in Clients : \A i \in 1..Len(alog[c]) : alog[c][i].ok)
    /\ [][rpm <= 0 =>
             /\ inMemCount' = inMemCount
             /\ inMemTTL' = inMemTTL
             /\ rlKeys' = rlKeys
             /\ \A c \in Clients : lpc'[c] = "idle"]_vars

\* With the quota 0 and Redis present both clients have called, one of them
\* twice, the second time in a later minute.
C22_Witness ==
    /\ rpm = 0
    /\ limKind = "redis"
    /\ \E c \in Clients : \E d \in Clients \ {c} :
          /\ Len(alog[c]) = 2 /\ alog[c][2].ok
          /\ alog[c][2].t > alog[c][1].t
          /\ Len(alog[d]) = 1 /\ alog[d][1].ok

(* Further properties of the bus (SpecBus). *)
\* The messages published since Consume returned.
PublishedSince(n) == SubSeq(published, n + 1, Len(published))

\* C23 as stated: a subscription of the RedisQueue delivers exactly the
\* messages published after Consume returned, in publish order: none that
\* was published before, and none of the later ones is skipped, so that the
\* messages delivered are at every moment the first of those published since.
C23_SubscriptionDelivers ==
    busKind = "redis" =>
        /\ subFrom = Unset => delivered = <<>>
        /\ subFrom # Unset => IsPrefix(delivered, PublishedSince(subFrom))

(* Further properties of the store (SpecStore). *)
\* C24 as stated: in the RedisDB, whatever calls of CreateJob, UpdateJob and
\* DeleteJob interleave, an id is a member of the sorted set "jobs" exactly
\* when the key of its job exists.
C24_IndexMatchesRecords ==
    dbKind = "redis" => \A i \in StoreIds : i \in rIndex <=> i \in DOMAIN rKeys

(* Further properties of the system (Spec): the store and its callers. *)
\* What GetJob(j) returns now: the empty set when it fails, else the set of
\* the one Job value.
StoredView(j) == IF dbJobs[j] = Nil THEN {} ELSE {StoredRecord(j)}

\* A step that ends with a call of CreateJob, UpdateJob or DeleteJob for job j.
StoreCall(j) ==
    \/ HandleExtractCreate(j)
    \/ HandleExtractFailUpdate(j)
    \/ HandleAdminDeleteJob(j)
    \/ ProcessJobMarkProcessing(j)
    \/ ProcessJobFinish(j)
    \/ HandleJobFailureFinish(j)

\* C25 as stated: what GetJob returns changes only in a call of CreateJob,
\* UpdateJob or DeleteJob, not when processJob or handleExtract assign to the
\* fields of the Job they hold; GetJob never returns a half-written record:
\* none that is Completed without completedAt.
C25_RecordChangesOnlyByCalls ==
    /\ [][\A j \in JobIds : StoredView(j)' # StoredView(j) => StoreCall(j)]_vars
    /\ [](\A j \in JobIds :
            StoredStatus(j) = JobStatusCompleted =>
                heap[dbJobs[j]].completedAt # Nil)

(* Further properties of the system (Spec): the dispatch loop. *)
\* The message the loop holds while it waits for a slot.
Held == IF dpc = "acquire" THEN {dmsg.jobId} ELSE {}

\* The messages taken from the bus whose execution has not finished.
TakenUnfinished == {j \in JobIds : Consumed(j) /\ wpc[j] # "done"}

AllSlotsBusy == sem = cfgMaxWorkers

GetWillFail(j) == wpc[j] = "get" /\ MemGetJob(dbJobs, heap, j).err # ""

\* The goroutine of job j returned, or is returning, without the executor.
Dropped(j) == wpc[j] \in {"release", "done"} /\ wtime[j] = 0

Occurrences(s, x) == Cardinality({i \in 1..Len(s) : s[i] = x})

\* C27: when GetJob fails for a delivered message, the goroutine returns at
\* once: the step changes nothing in the store and does not run the executor;
\* the deferred release then gives the slot back and writes nothing; the
\* goroutine never runs again, the record stays absent and the message was
\* delivered once and is not in the bus again.
C27_MissingJobDropped ==
    /\ [][\A j \in JobIds :
            /\ (GetWillFail(j) /\ ProcessJobGet(j)) =>
                  /\ Dropped(j)'
                  /\ UNCHANGED <<storeVars, sem>>
            /\ (Dropped(j) /\ wpc[j] = "release" /\ wpc'[j] # wpc[j]) =>
                  /\ wpc'[j] = "done"
                  /\ sem' = sem - 1
                  /\ UNCHANGED storeVars
            /\ (Dropped(j) /\ wpc[j] = "done") => Dropped(j)' /\ wpc'[j] = "done"]_vars
    /\ [](\A j \in JobIds :
            Dropped(j) =>
                /\ werr[j] = ""
                /\ dbJobs[j] = Nil
                /\ Occurrences(delivered, j) = 1
                /\ j \notin Range(QueueIds))

\* The job of a delivered message was deleted before its goroutine loaded it:
\* the goroutine has returned, every slot is free and the bus is empty.
C27_Witness ==
    \E j \in JobIds :
        /\ Dropped(j)
        /\ wpc[j] = "done"
        /\ WasPublished(j)
        /\ sem = 0
        /\ queue = <<>>

(* Further properties of the rate limiter (SpecLimiter): the Redis counter. *)
\* The value of the counter k: a missing key counts as 0.
CountOf(keys, k) == IF k \in DOMAIN keys THEN keys[k].n ELSE 0

\* The last call of client c returned the result Redis' count n gives.
DurableResult(c, n) ==
    LET i == Len(alog[c])
    IN  /\ i > 0
        /\ alog[c][i].path = "redis"
        /\ alog[c][i].ok <=> n <= rpm
        /\ alog[c][i].rem = rpm - n

\* The call of client c has incremented the counter k and not yet returned.
SettingExpiry(c, k) == lpc[c] = "expire" /\ lres[c].key = k /\ lres[c].n = 1

\* C28, increments and results: an INCR that is answered adds one to the
\* counter of the client's current minute, whatever other calls are under
\* way, and the call is allowed exactly when the new count is at most the
\* quota, with remaining = quota - count.
C28_Increments ==
    [][\A ip \in Clients :
         /\ IncrOutcome(ip, "ok") =>
               LET k == MinuteKey(ip, now)
                   n == CountOf(Live(rlKeys, now), k) + 1
               IN  /\ CountOf(rlKeys', k) = n
                   /\ \A x \in DOMAIN rlKeys' \ {k} : rlKeys'[x] = rlKeys[x]
                   /\ \E m \in 1..MaxCalls :
                         /\ m = n
                         /\ IF m = 1
                            THEN lpc'[ip] = "expire" /\ lres'[ip].key = k /\ lres'[ip].n = 1
                            ELSE DurableResult(ip, m)'
         /\ (\E o \in CommandOutcomes : ExpireOutcome(ip, o)) => DurableResult(ip, 1)'
      ]_vars

\* C28, the expiry: only the call that observed the count 1 gives a counter
\* its expiry.
C28_ExpiryOnlyByFirst ==
    [][\A k \in DOMAIN rlKeys \cap DOMAIN rlKeys' :
         (rlKeys[k].exp = Unset /\ rlKeys'[k].exp # Unset) =>
             \E ip \in Clients : SettingExpiry(ip, k) /\ lpc'[ip] = "idle"]_vars

\* C28 as stated: increments, results and expiry as above, and once the call
\* that observed the count 1 has returned, no counter that exists is without
\* an expiry.
C28_DurableCounter ==
    /\ C28_Increments
    /\ C28_ExpiryOnlyByFirst
    /\ [](\A k \in DOMAIN rlKeys :
            rlKeys[k].exp = Unset => \E ip \in Clients : SettingExpiry(ip, k))

(***************************************************************************)
(* The system while it serves, on either bus, with the scheduling of Go:   *)
(* the queue stays open (mq.Close() is deferred to the return of main), no *)
(* record is deleted, no XREAD fails, the executor returns, and a          *)
(* goroutine that can run is run: the consumer loop at its receive and at  *)
(* its send on workerLimiter, the goroutine of RedisQueue.Consume, and     *)
(* each goroutine of a job.  Requests arrive as the clients please.        *)
(***************************************************************************)
\* mq.Publish(jobMessage) on a RedisQueue without MAXLEN: XADD, or an error
\* with nothing added.  An XREAD that blocks is served with the new entry.
HandleExtractPublishRedis(j) ==
    /\ ~crashed
    /\ busKind = "redis"
    /\ hpc[j] = "publish"
    /\ \/ LET e == [id |-> lastGenId + 1,
                    data |-> MarshalMessage(JobMessage(j, TheURL))]
              s == Append(stream, e)
          IN  /\ \E k \in TrimChoices(Len(s), qMaxLen) :
                     stream' = SubSeq(s, k + 1, Len(s))
              /\ lastGenId' = lastGenId + 1
              /\ published' = Append(published, j)
              /\ IF rpc = "blocked"
                 THEN batch' = <<e>> /\ rpc' = "deliver"
                 ELSE UNCHANGED <<batch, rpc>>
              /\ hres' = [hres EXCEPT ![j] = "ok"]
              /\ hpc' = [hpc EXCEPT ![j] = "accepted"]
       \/ /\ hres' = [hres EXCEPT ![j] = "RedisError"]
          /\ hpc' = [hpc EXCEPT ![j] = "failStatus"]
          /\ UNCHANGED <<stream, lastGenId, published, batch, rpc>>
    /\ UNCHANGED <<storeVars, now, queue, closeState, delivered, dispVars, sem,
                   cfgMaxWorkers, workerVars, crashed, numDeletes, clientVars,
                   limVars, busKind, qMaxLen, lastID, nextMsg, readFrom, subFrom>>

\* lastID = msg.ID; out <- jm in the goroutine of Consume, and the receive
\* of `for msg := range messages`: out is unbuffered, both are one step.
ConsumerReceiveRedis ==
    /\ ~crashed
    /\ busKind = "redis"
    /\ dpc = "recv"
    /\ rpc = "deliver"
    /\ lastID' = Head(batch).id
    /\ dmsg' = UnmarshalMessage(Head(batch).data)
    /\ delivered' = Append(delivered, UnmarshalMessage(Head(batch).data).jobId)
    /\ batch' = Tail(batch)
    /\ rpc' = IF Tail(batch) = <<>> THEN "xread" ELSE "deliver"
    /\ dpc' = "acquire"
    /\ UNCHANGED <<storeVars, now, queue, closeState, published, handlerVars, sem,
                   cfgMaxWorkers, workerVars, crashed, numDeletes, clientVars,
                   limVars, busKind, stream, lastGenId, qMaxLen, nextMsg, readFrom,
                   subFrom>>

Submit(j) ==
    \/ HandleExtractCreate(j)
    \/ HandleExtractPublish(j)
    \/ HandleExtractPublishRedis(j)
    \/ HandleExtractFailStatus(j)
    \/ HandleExtractFailUpdate(j)

InitFair ==
    /\ InitStoreMem
    /\ InitQueue
    /\ InitProcs
    /\ cfgMaxWorkers \in 1..MaxWorkers
    /\ busKind \in {"mem", "redis"}
    /\ stream = <<>>
    /\ lastGenId = 0
    /\ qMaxLen = 0
    /\ rpc = "unsubscribed"
    /\ lastID = Dollar
    /\ batch = <<>>
    /\ nextMsg = 1
    /\ readFrom = Unset
    /\ subFrom = Unset
    /\ InitClientIdle
    /\ InitLimiterIdle

NextFair ==
    \/ \E j \in JobIds : Submit(j)
    \/ \E j \in JobIds : Worker(j)
    \/ ConsumerReceive
    \/ ConsumerReceiveRedis
    \/ ConsumerAcquire
    \/ RedisConsume
    \/ RedisXRead

Fairness ==
    /\ WF_vars(ConsumerReceive)
    /\ WF_vars(ConsumerReceiveRedis)
    /\ WF_vars(ConsumerAcquire)
    /\ WF_vars(RedisConsume)
    /\ WF_vars(RedisXRead)
    /\ \A j \in JobIds : WF_vars(Worker(j))

SpecFair == InitFair /\ [][NextFair]_vars /\ Fairness

\* The message of job j was published while the dispatcher was subscribed:
\* on the InMemoryQueue Consume returns the channel Publish sends on; on the
\* RedisQueue the subscription starts when Consume returns.
PublishedWhileSubscribed(j) ==
    \E i \in 1..Len(published) :
        /\ published[i] = j
        /\ busKind = "redis" => (subFrom # Unset /\ i > subFrom)

\* No message waits in the channel or in the hands of the Consume goroutine.
BusEmpty == queue = <<>> /\ batch = <<>>

\* C29 on the InMemoryQueue: every job whose message Publish enqueued is in
\* the end Completed or Failed in the store.
C29_EveryJobEndsOnChannel ==
    \A j \in JobIds :
        (busKind = "mem" /\ WasPublished(j)) ~> Terminal(StoredStatus(j))

\* C29: on either bus, every job whose message was published while the
\* dispatcher was subscribed is in the end Completed or Failed in the store;
\* and whenever the bus is empty, then later every slot is free and the loop
\* is back at its receive, unless a message arrives before.
C29_EveryJobEnds ==
    /\ \A j \in JobIds : PublishedWhileSubscribed(j) ~> Terminal(StoredStatus(j))
    /\ BusEmpty ~> ((sem = 0 /\ dpc = "recv") \/ ~BusEmpty)

====
